---- MODULE Spec2Model ----
(***************************************************************************)
(* npy2dcm.py: a numpy volume is wrapped in a BaseVolume (fromArray) and   *)
(* written as a DICOM CT series, one file per axial slice (toDicom).       *)
(*                                                                         *)
(* An array is a record [shape, dtype, flat]: its extents, its element     *)
(* type and its C-contiguous (row-major) buffer.  Python's 0-based         *)
(* subscripts are kept through At.  Intensities are integers; a float64    *)
(* array holds integer-valued floats.                                      *)
(***************************************************************************)
EXTENDS Integers, Sequences, FiniteSets, TLC

\* ------------------------------------------------------------------ bounds
\* every array extent and every component of a frame's size is in 1..MaxDim
MaxDim == 2
\* toDicom is called at most MaxCalls times on the volume
MaxCalls == 2

\* ------------------------------------------------------ program constants
\* number of values of numpy.uint16, the type of the stored pixels
UINT16_RANGE == 65536
\* the field width of '{:04d}'
NameWidth == 4

\* ------------------------------------------------------------ python data
None == [none |-> TRUE]

At(s, k) == s[k + 1]

Reverse(s) == [k \in 1..Len(s) |-> s[Len(s) + 1 - k]]

RECURSIVE Product(_)
Product(s) == IF s = <<>> THEN 1 ELSE Head(s) * Product(Tail(s))

Values(s) == {s[k] : k \in 1..Len(s)}

\* ------------------------------------------------------------------ numpy
ndim(a) == Len(a.shape)

size(a) == Len(a.flat)

\* np.atleast_3d of a 2-D array (M, N): a view of shape (M, N, 1)
atleast_3d(a) ==
  IF ndim(a) = 2 THEN [a EXCEPT !.shape = a.shape \o <<1>>] ELSE a

\* a reshape that demands the extents themselves to agree
reshape_raises_unless_same_shape(a, newshape) == a.shape # newshape

\* array.reshape(newshape) raises ValueError unless the element counts agree
reshape_raises(a, newshape) == size(a) # Product(newshape)

\* array.reshape(newshape): the same buffer under new extents
reshape(a, newshape) == [a EXCEPT !.shape = newshape]

\* np.min(a)
np_min(a) == CHOOSE m \in Values(a.flat) : \A v \in Values(a.flat) : m <= v

\* two's-complement wraparound of an integer type of the given width
WrapSigned(x, bits) == ((x + 2^(bits - 1)) % (2^bits)) - 2^(bits - 1)

\* elementwise a - b in the array's own dtype: int8 and int16 wrap; int32 and
\* float64 are exact on the values the model draws
subtract(dtype, a, b) ==
  CASE dtype = "int8" -> WrapSigned(a - b, 8)
    [] dtype = "int16" -> WrapSigned(a - b, 16)
    [] OTHER -> a - b

\* what a cast of an out-of-range float to an unsigned type may produce: the
\* C conversion is undefined and builds differ (modular on some, saturating
\* on others); one build casts the same way every time
CastModes == {"wrap", "saturate"}

\* a cast that clamps to the range of uint16 instead
astype_uint16_clamped(dtype, x, mode) ==
  IF x < 0 THEN 0 ELSE IF x >= UINT16_RANGE THEN UINT16_RANGE - 1 ELSE x

\* .astype(np.uint16) of one element: integer types convert modulo 2^16, an
\* in-range float converts exactly, an out-of-range float as the build does
astype_uint16(dtype, x, mode) ==
  IF dtype = "float64" /\ (x < 0 \/ x >= UINT16_RANGE)
  THEN IF mode = "wrap" THEN x % UINT16_RANGE
       ELSE IF x < 0 THEN 0 ELSE UINT16_RANGE - 1
  ELSE x % UINT16_RANGE

\* data[i, :, :].flatten() of a 3-D array: slice i of the buffer
slice_flat(a, i) ==
  LET n == At(a.shape, 1) * At(a.shape, 2)
  IN  [k \in 1..n |-> a.flat[i * n + k]]

\* ------------------------------------------------------- pydicom.uid
\* generate_uid(): the generator is a counter, every call returns a new value
generate_uid(u) == [uid |-> u + 1]

\* --------------------------------------------------- make_dicom_boilerplate
\* the attributes of lines 13-73 that toDicom or a reader of the series depends
\* on, with the values that do not come from the UID generator
boilerplate_attributes ==
  [MediaStorageSOPInstanceUID |-> None,
   ImagePositionPatient |-> <<0, 0, 0>>,
   StudyInstanceUID |-> None,
   SeriesInstanceUID |-> None,
   FrameOfReferenceUID |-> None,
   SOPInstanceUID |-> None,
   Modality |-> "",
   DerivationDescription |-> None,
   RescaleIntercept |-> 0,
   RescaleSlope |-> 1,
   AcquisitionNumber |-> 1,
   PixelRepresentation |-> 0,
   SliceLocation |-> 0,
   Rows |-> 0,
   Columns |-> 0,
   PixelSpacing |-> <<1, 1>>,
   SliceThickness |-> 1,
   PixelData |-> <<>>]

\* make_dicom_boilerplate with line 49 reading ds.StudyInstanceUID = generate_uid()
make_dicom_boilerplate_new_study(Series, Study, FoR, u) ==
  LET u1 == u + 1
      u2 == u1 + 1
      u3 == IF Series = None THEN u2 + 1 ELSE u2
      u4 == IF FoR = None THEN u3 + 1 ELSE u3
  IN  [ds |-> [boilerplate_attributes EXCEPT
                 !.MediaStorageSOPInstanceUID = generate_uid(u),
                 !.StudyInstanceUID = generate_uid(u1),
                 !.SeriesInstanceUID = IF Series = None THEN generate_uid(u2) ELSE Series,
                 !.FrameOfReferenceUID = IF FoR = None THEN generate_uid(u3) ELSE FoR,
                 !.SOPInstanceUID = generate_uid(u4)],
       uid |-> u4 + 1]

\* the dataset, and the generator's counter after the calls made (lines 17, 49-52)
make_dicom_boilerplate(Series, Study, FoR, u) ==
  LET u1 == u + 1
      u2 == IF Study = None THEN u1 + 1 ELSE u1
      u3 == IF Series = None THEN u2 + 1 ELSE u2
      u4 == IF FoR = None THEN u3 + 1 ELSE u3
  IN  [ds |-> [boilerplate_attributes EXCEPT
                 !.MediaStorageSOPInstanceUID = generate_uid(u),
                 !.StudyInstanceUID = IF Study = None THEN generate_uid(u1) ELSE Study,
                 !.SeriesInstanceUID = IF Series = None THEN generate_uid(u2) ELSE Series,
                 !.FrameOfReferenceUID = IF FoR = None THEN generate_uid(u3) ELSE FoR,
                 !.SOPInstanceUID = generate_uid(u4)],
       uid |-> u4 + 1]

\* ---------------------------------------------------------- FrameOfReference
FrameOfReference(start, spacing, sz, UID) ==
  [start |-> start, spacing |-> spacing, size |-> sz, UID |-> UID]

\* --------------------------------------------------------------- BaseVolume
BaseVolume(data, frame) ==
  [data |-> data, frameofreference |-> frame, modality |-> None, feature_label |-> None]

\* line 143 without the [::-1]
default_frame_unreversed(arr) ==
  FrameOfReference(<<0, 0, 0>>, <<1, 1, 1>>, arr.shape \o <<1>>, None)

\* the frame fromArray makes when it is given none (line 143)
default_frame(arr) ==
  FrameOfReference(<<0, 0, 0>>, <<1, 1, 1>>, Reverse(arr.shape) \o <<1>>, None)

\* BaseVolume.fromArray: the volume, or the exception it raises
BaseVolume_fromArray(a, f) ==
  LET arr == IF ndim(a) = 2 THEN atleast_3d(a) ELSE a
  IN  IF f # None
      THEN IF reshape_raises(arr, Reverse(f.size))
           THEN [raised |-> "ValueError"]
           ELSE BaseVolume(reshape(arr, Reverse(f.size)), f)
      ELSE BaseVolume(arr, default_frame(arr))

\* ------------------------------------------------------------------ toDicom
\* range(self.frameofreference.size[2]) of line 152
slice_count(vol) == At(vol.frameofreference.size, 2)

\* line 151
global_min(vol) == np_min(vol.data)

\* line 163: the stored pixels of slice i
pixel_data(vol, i, minv, mode) ==
  LET px == slice_flat(vol.data, i)
  IN  [k \in 1..Len(px) |->
         astype_uint16(vol.data.dtype, subtract(vol.data.dtype, px[k], minv), mode)]

\* whether line 163 casts an out-of-range float in slice i
casts_out_of_range(vol, i, minv) ==
  /\ vol.data.dtype = "float64"
  /\ \E v \in Values(slice_flat(vol.data, i)) :
       LET x == subtract(vol.data.dtype, v, minv) IN x < 0 \/ x >= UINT16_RANGE

\* line 156 counting slices from 1
slice_location_from_one(frame, i) == At(frame.start, 2) + (i + 1) * At(frame.spacing, 2)

\* line 156
slice_location(frame, i) == At(frame.start, 2) + i * At(frame.spacing, 2)

\* math.floor of line 165; the intensities of the model are integers, which
\* floor leaves as they are
floor(x) == x

\* lines 154-166: the boilerplate dataset filled in for slice i
slice_dataset(b, vol, i, minv, mode) ==
  LET frame == vol.frameofreference
      loc == slice_location(frame, i)
  IN  [b EXCEPT
         !.SliceThickness = At(frame.spacing, 2),
         !.PixelSpacing = SubSeq(frame.spacing, 1, 2),
         !.SliceLocation = loc,
         !.ImagePositionPatient = SubSeq(frame.start, 1, 2) \o <<loc>>,
         !.Columns = At(frame.size, 0),
         !.Rows = At(frame.size, 1),
         !.AcquisitionNumber = i + 1,
         !.Modality = IF vol.modality # None THEN vol.modality ELSE "",
         !.DerivationDescription =
            IF vol.feature_label # None THEN vol.feature_label ELSE "",
         !.PixelData = pixel_data(vol, i, minv, mode),
         !.RescaleSlope = 1,
         !.RescaleIntercept = floor(minv),
         !.PixelRepresentation = 0]

\* '{:04d}'.format(i): the decimal digits of i, zero-padded on the left
Digit(d) == At(<<"0", "1", "2", "3", "4", "5", "6", "7", "8", "9">>, d)

RECURSIVE Decimal(_)
Decimal(n) == IF n < 10 THEN <<Digit(n)>> ELSE Decimal(n \div 10) \o <<Digit(n % 10)>>

RECURSIVE ZeroPad(_, _)
ZeroPad(s, width) == IF Len(s) >= width THEN s ELSE ZeroPad(<<"0">> \o s, width)

format_04d(n) == ZeroPad(Decimal(n), NameWidth)

\* line 168 numbering the files from 1
file_name_from_one(prefix, i) == prefix \o format_04d(i + 1) \o <<".", "d", "c", "m">>

\* line 168: the file of slice i inside dname
file_name(prefix, i) == prefix \o format_04d(i) \o <<".", "d", "c", "m">>

\* ------------------------------------------------------------------ inputs
Shapes2 == {<<r, c>> : r \in 1..MaxDim, c \in 1..MaxDim}

Shapes3 == {<<z, y, x>> : z \in 1..MaxDim, y \in 1..MaxDim, x \in 1..MaxDim}

Shapes == Shapes2 \cup Shapes3

Dtypes == {"int8", "int16", "int32", "float64"}

Intensities(dtype) ==
  CASE dtype = "int8" -> {-128, 1, 127}
    [] dtype = "int16" -> {-32768, 1, 32767}
    [] OTHER -> {-1, 1, 70000}

\* np.full(shape, base) with one element, the first or the last, set to spot
spot_array(shape, dtype, base, spot, first) ==
  LET n == Product(shape)
      p == IF first THEN 1 ELSE n
  IN  [shape |-> shape, dtype |-> dtype,
       flat |-> [k \in 1..n |-> IF k = p THEN spot ELSE base]]

\* np.ones(shape)
ones(shape) == spot_array(shape, "float64", 1, 1, TRUE)

Geometries ==
  {[start |-> <<0, 0, 0>>, spacing |-> <<1, 1, 1>>],
   [start |-> <<-5, 3, 10>>, spacing |-> <<2, 3, 4>>]}

FrameSizes == Shapes2 \cup Shapes3

Frames ==
  {FrameOfReference(g.start, g.spacing, sz, None) : g \in Geometries, sz \in FrameSizes}

\* the calls of fromArray explored: every shape against every frame on an
\* all-ones array, and every intensity pattern of every shape without a frame
GeometryInputs ==
  {[array |-> ones(s), frame |-> f] : s \in Shapes, f \in Frames \cup {None}}

IntensityInputs ==
  UNION {{[array |-> spot_array(s, d, base, spot, first), frame |-> None] :
            s \in Shapes, base \in Intensities(d), spot \in Intensities(d),
            first \in BOOLEAN} : d \in Dtypes}

Prefixes == {<<>>, <<"c", "t">>}

\* ------------------------------------------------------------------- state
VARIABLES
  array, frameofreference,   \* the arguments of the fromArray call
  self,                      \* the BaseVolume, None before fromArray returns
  pc,                        \* where the program is
  exc,                       \* the exception that ended it, or None
  uid,                       \* the UID generator's counter
  fprefix,                   \* toDicom's argument
  SeriesInstanceUID, StudyInstanceUID, FrameOfReferenceUID, min_val, i, ds,
                             \* toDicom's locals
  float_cast,                \* how this build casts an out-of-range float,
                             \* "unseen" until the program has made such a cast
  dir_exists, files,         \* the directory dname: file name -> content
  calls,                     \* toDicom calls made so far
  files0,                    \* the directory's content when the call began
  log                        \* the call's os.makedirs / save_as calls, in order

vars == <<array, frameofreference, self, pc, exc, uid, float_cast, fprefix, SeriesInstanceUID,
          StudyInstanceUID, FrameOfReferenceUID, min_val, i, ds, dir_exists,
          files, calls, files0, log>>

locals == <<fprefix, SeriesInstanceUID, StudyInstanceUID, FrameOfReferenceUID, min_val>>

NoFiles == [n \in {} |-> None]

Init ==
  /\ array = None /\ frameofreference = None /\ self = None
  /\ pc = "start" /\ exc = None /\ uid = 0 /\ float_cast = "unseen"
  /\ fprefix = <<>>
  /\ SeriesInstanceUID = None /\ StudyInstanceUID = None /\ FrameOfReferenceUID = None
  /\ min_val = 0 /\ i = 0 /\ ds = None
  /\ dir_exists = FALSE /\ files = NoFiles
  /\ calls = 0 /\ files0 = NoFiles /\ log = <<>>

\* ----------------------------------------------------------------- actions
\* vol = BaseVolume.fromArray(a, f)
fromArray ==
  /\ pc = "start"
  /\ \E inp \in GeometryInputs \cup IntensityInputs :
       /\ array' = inp.array
       /\ frameofreference' = inp.frame
       /\ LET r == BaseVolume_fromArray(inp.array, inp.frame)
          IN  IF r = [raised |-> "ValueError"]
              THEN self' = None /\ pc' = "raised" /\ exc' = [type |-> "ValueError", at |-> -1]
              ELSE self' = r /\ pc' = "constructed" /\ exc' = None
  /\ UNCHANGED <<float_cast, uid, locals, i, ds, dir_exists, files, calls, files0, log>>

\* vol.toDicom(dname, p), lines 148-152: up to the first test of the loop
toDicom ==
  /\ pc \in {"constructed", "done"}
  /\ calls < MaxCalls
  /\ \E p \in Prefixes : fprefix' = p
  /\ SeriesInstanceUID' = generate_uid(uid)
  /\ StudyInstanceUID' = generate_uid(uid + 1)
  /\ FrameOfReferenceUID' = generate_uid(uid + 2)
  /\ uid' = uid + 3
  /\ min_val' = global_min(self)
  /\ calls' = calls + 1 /\ files0' = files /\ log' = <<>>
  /\ i' = 0 /\ ds' = None
  /\ IF Len(self.frameofreference.size) < 3
     THEN pc' = "raised" /\ exc' = [type |-> "IndexError", at |-> -1]
     ELSE /\ pc' = IF 0 < slice_count(self) THEN "build" ELSE "done"
          /\ exc' = None
  /\ UNCHANGED <<float_cast, array, frameofreference, self, dir_exists, files>>

\* lines 153-166: the dataset of slice i
build_dataset ==
  /\ pc = "build"
  /\ \E mode \in (IF float_cast = "unseen" THEN CastModes ELSE {float_cast}) :
       LET b == make_dicom_boilerplate(SeriesInstanceUID, StudyInstanceUID,
                                       FrameOfReferenceUID, uid)
       IN  /\ ds' = slice_dataset(b.ds, self, i, min_val, mode)
           /\ uid' = b.uid
           /\ float_cast' = IF casts_out_of_range(self, i, min_val) THEN mode
                            ELSE float_cast
  /\ pc' = "makedirs"
  /\ UNCHANGED <<array, frameofreference, self, exc, locals, i, dir_exists, files,
                 calls, files0, log>>

\* line 167: os.makedirs(dname, exist_ok=True)
makedirs ==
  /\ pc = "makedirs"
  /\ dir_exists' = TRUE
  /\ log' = Append(log, [op |-> "makedirs", i |-> i, ok |-> TRUE])
  /\ pc' = "save_as"
  /\ UNCHANGED <<float_cast, array, frameofreference, self, exc, uid, locals, i, ds, files,
                 calls, files0>>

\* line 167 raising OSError: the exception leaves toDicom
makedirs_raises ==
  /\ pc = "makedirs"
  /\ log' = Append(log, [op |-> "makedirs", i |-> i, ok |-> FALSE])
  /\ pc' = "raised" /\ exc' = [type |-> "OSError", at |-> i]
  /\ UNCHANGED <<float_cast, array, frameofreference, self, uid, locals, i, ds, dir_exists,
                 files, calls, files0>>

\* line 168: ds.save_as(path), then the loop's next test
save_as ==
  /\ pc = "save_as"
  /\ files' = (file_name(fprefix, i) :> [ds |-> ds, complete |-> TRUE]) @@ files
  /\ log' = Append(log, [op |-> "save_as", i |-> i, ok |-> TRUE])
  /\ IF i + 1 < slice_count(self)
     THEN i' = i + 1 /\ pc' = "build"
     ELSE i' = i /\ pc' = "done"
  /\ UNCHANGED <<float_cast, array, frameofreference, self, exc, uid, locals, ds, dir_exists,
                 calls, files0>>

\* line 168 inside try/except OSError: continue
save_as_swallows ==
  /\ pc = "save_as"
  /\ files' = files
  /\ log' = Append(log, [op |-> "save_as", i |-> i, ok |-> FALSE])
  /\ IF i + 1 < slice_count(self)
     THEN i' = i + 1 /\ pc' = "build"
     ELSE i' = i /\ pc' = "done"
  /\ UNCHANGED <<float_cast, array, frameofreference, self, exc, uid, locals, ds, dir_exists,
                 calls, files0>>

\* line 168 raising OSError: the file is untouched or holds a truncated dataset
save_as_raises ==
  /\ pc = "save_as"
  /\ \/ files' = files
     \/ files' = (file_name(fprefix, i) :> [ds |-> ds, complete |-> FALSE]) @@ files
  /\ log' = Append(log, [op |-> "save_as", i |-> i, ok |-> FALSE])
  /\ pc' = "raised" /\ exc' = [type |-> "OSError", at |-> i]
  /\ UNCHANGED <<float_cast, array, frameofreference, self, uid, locals, i, ds, dir_exists,
                 calls, files0>>

Next ==
  \/ fromArray
  \/ toDicom
  \/ build_dataset
  \/ makedirs
  \/ makedirs_raises
  \/ save_as
  \/ save_as_raises

Spec == Init /\ [][Next]_vars

\* ------------------------------------------------------------ observations
\* the slices whose save_as returned in the current toDicom call
Saved == {log[k].i : k \in {n \in 1..Len(log) : log[n].op = "save_as" /\ log[n].ok}}

\* the datasets of the current call, each with its slice index: the files
\* written so far and the dataset in hand
Datasets ==
  {<<j, files[file_name(fprefix, j)].ds>> : j \in Saved}
    \cup (IF pc \in {"makedirs", "save_as"} THEN {<<i, ds>>} ELSE {})

\* the volume's least and greatest intensity
MinIntensity == CHOOSE m \in Values(self.data.flat) : \A v \in Values(self.data.flat) : m <= v

MaxIntensity == CHOOSE m \in Values(self.data.flat) : \A v \in Values(self.data.flat) : m >= v

\* the intensity of element k (from 1) of slice j of the volume
Voxel(j, k) ==
  self.data.flat[j * self.frameofreference.size[1] * self.frameofreference.size[2] + k]

\* the number a string of decimal digits denotes
DigitValue(c) ==
  (CHOOSE k \in 1..10 : <<"0", "1", "2", "3", "4", "5", "6", "7", "8", "9">>[k] = c) - 1

RECURSIVE ParseInt(_)
ParseInt(s) ==
  IF s = <<>> THEN 0 ELSE 10 * ParseInt(SubSeq(s, 1, Len(s) - 1)) + DigitValue(s[Len(s)])

\* n is <prefix><four digits denoting j>.dcm
IsSliceName(n, prefix, j) ==
  /\ Len(n) = Len(prefix) + 8
  /\ SubSeq(n, 1, Len(prefix)) = prefix
  /\ ParseInt(SubSeq(n, Len(prefix) + 1, Len(prefix) + 4)) = j
  /\ SubSeq(n, Len(prefix) + 5, Len(prefix) + 8) = <<".", "d", "c", "m">>

\* ------------------------------------------------------------------ claims

\* C1: after every successful fromArray call (2-D or 3-D array, a frame whose
\* size has 3 components or no frame), data.shape ==
\* (frame.size[2], frame.size[1], frame.size[0]).
C1_ShapeInvariant ==
  (self # None /\ (frameofreference = None \/ Len(frameofreference.size) = 3)) =>
    LET sz == self.frameofreference.size
    IN  self.data.shape = <<sz[3], sz[2], sz[1]>>

\* a 3-D array with unequal extents was wrapped without a frame
C1_Witness ==
  /\ self # None /\ frameofreference = None
  /\ Len(array.shape) = 3 /\ array.shape[1] # array.shape[3]

\* C2: for every 3-D array of shape (Z,Y,X), fromArray without a frame yields
\* a frame with size == (X,Y,Z) (exactly three components), start == (0,0,0)
\* and spacing == (1,1,1).
C2_DefaultFrame ==
  (self # None /\ frameofreference = None /\ Len(array.shape) = 3) =>
    /\ self.frameofreference.size = <<array.shape[3], array.shape[2], array.shape[1]>>
    /\ self.frameofreference.start = <<0, 0, 0>>
    /\ self.frameofreference.spacing = <<1, 1, 1>>

\* C3: a 2-D array of shape (R,C) passed to fromArray with no frame gives
\* frame.size == (C,R,1), and a toDicom that completes has written exactly
\* one file.
C3_SingleSlice ==
  (self # None /\ frameofreference = None /\ Len(array.shape) = 2) =>
    /\ self.frameofreference.size = <<array.shape[2], array.shape[1], 1>>
    /\ (pc = "done" => Cardinality(Saved) = 1)

\* C4: a toDicom call that completes on an initially empty directory leaves
\* exactly frame.size[2] files, one per slice index i, named
\* <prefix><i zero-padded to 4 digits>.dcm, pairwise distinct.
C4_FilesWritten ==
  (pc = "done" /\ files0 = NoFiles) =>
    LET N == self.frameofreference.size[3]
    IN  /\ Cardinality(DOMAIN files) = N
        /\ \A j \in 0..(N - 1) :
             \E n \in DOMAIN files :
               /\ IsSliceName(n, fprefix, j)
               /\ files[n].complete
               /\ files[n].ds.AcquisitionNumber = j + 1
        /\ (fprefix = <<>> /\ N = 2) =>
             DOMAIN files = {<<"0", "0", "0", "0", ".", "d", "c", "m">>,
                             <<"0", "0", "0", "1", ".", "d", "c", "m">>}

\* a call with a prefix has completed on an empty directory and written
\* more than one slice
C4_Witness ==
  /\ pc = "done" /\ files0 = NoFiles
  /\ fprefix # <<>> /\ self.frameofreference.size[3] >= 2

\* C5: all files written by one toDicom call carry the same StudyInstanceUID,
\* SeriesInstanceUID and FrameOfReferenceUID, and the SOPInstanceUID values of
\* two distinct slices differ.
C5_SharedUIDs ==
  \A a \in Datasets, b \in Datasets :
    /\ a[2].StudyInstanceUID = b[2].StudyInstanceUID
    /\ a[2].SeriesInstanceUID = b[2].SeriesInstanceUID
    /\ a[2].FrameOfReferenceUID = b[2].FrameOfReferenceUID
    /\ (a[1] # b[1] => a[2].SOPInstanceUID # b[2].SOPInstanceUID)

\* a second export over the files of a first one has written two slices
C5_Witness == pc = "done" /\ calls = 2 /\ Cardinality(Saved) >= 2

\* C6: the dataset of slice i has SliceLocation == start[2] + i*spacing[2],
\* ImagePositionPatient == (start[0], start[1], SliceLocation), Columns ==
\* size[0], Rows == size[1], AcquisitionNumber == i+1; SliceLocation grows by
\* spacing[2] from each slice to the next.
C6_SliceGeometry ==
  LET f == self.frameofreference
  IN  /\ \A a \in Datasets :
           /\ a[2].SliceLocation = f.start[3] + a[1] * f.spacing[3]
           /\ a[2].ImagePositionPatient = <<f.start[1], f.start[2], a[2].SliceLocation>>
           /\ a[2].Columns = f.size[1]
           /\ a[2].Rows = f.size[2]
           /\ a[2].AcquisitionNumber = a[1] + 1
      /\ \A a \in Datasets, b \in Datasets :
           b[1] = a[1] + 1 => b[2].SliceLocation - a[2].SliceLocation = f.spacing[3]

\* two slices of a volume whose frame starts away from the origin are written
C6_Witness ==
  /\ pc = "done" /\ Cardinality(Saved) >= 2
  /\ self.frameofreference.start[3] # 0 /\ self.frameofreference.spacing[3] # 1

\* C7: for every volume of integer intensities with max - min <= 65535, every
\* slice has RescaleIntercept == the global minimum and RescaleSlope == 1, and
\* storedValue + RescaleIntercept is the original intensity at every voxel.
C7_RoundTrip ==
  \A a \in Datasets :
    (MaxIntensity - MinIntensity <= 65535) =>
      /\ a[2].RescaleIntercept = MinIntensity
      /\ a[2].RescaleSlope = 1
      /\ \A k \in 1..Len(a[2].PixelData) :
           a[2].PixelData[k] + a[2].RescaleIntercept = Voxel(a[1], k)

\* C8: fromArray with a frame fails with a shape-mismatch error, returning no
\* volume, whenever the array's element count differs from the product of
\* frame.size, and succeeds whenever they are equal.
C8_ShapeMismatch ==
  (pc # "start" /\ frameofreference # None) =>
    LET n == Product(array.shape)
        m == Product(frameofreference.size)
    IN  /\ (n # m) => (self = None /\ pc = "raised" /\ exc.type = "ValueError")
        /\ (n = m) => (self # None /\ self.data.flat = array.flat
                       /\ (exc # None => exc.type # "ValueError"))

\* fromArray has raised on a frame that does not fit the array
C8_Witness ==
  /\ pc = "raised" /\ exc.type = "ValueError" /\ frameofreference # None
  /\ Product(array.shape) # Product(frameofreference.size)

\* the voxels of the current call's datasets with value - minimum > 65535:
\* <<dataset, stored value, intensity>>
Overflowed ==
  UNION {{<<a[2], a[2].PixelData[k], Voxel(a[1], k)>> : k \in 1..Len(a[2].PixelData)} :
           a \in Datasets}

\* no error other than the I/O errors ends toDicom, and a call that is done
\* has written every slice
NoRangeError ==
  /\ (calls > 0 /\ pc = "raised") =>
       \/ exc.type = "IndexError" /\ Len(self.frameofreference.size) < 3
       \/ exc.type = "OSError" /\ log # <<>> /\ ~log[Len(log)].ok
  /\ pc = "done" => Saved = 0..(self.frameofreference.size[3] - 1)

C10_AbortOnIOError ==
  /\ \A n \in 1..Len(log) :
       /\ log[n].op = "save_as" =>
            n > 1 /\ log[n - 1] = [op |-> "makedirs", i |-> log[n].i, ok |-> TRUE]
       /\ \A m \in 1..Len(log) : (log[m].op = log[n].op /\ log[m].i = log[n].i) => m = n
       /\ ~log[n].ok => (n = Len(log) /\ pc = "raised")
  /\ pc = "save_as" => dir_exists
  /\ (pc = "raised" /\ exc.type = "OSError") =>
       /\ log[Len(log)] \in {[op |-> o, i |-> exc.at, ok |-> FALSE] : o \in {"makedirs", "save_as"}}
       /\ \A j \in 0..(exc.at - 1) :
            /\ file_name(fprefix, j) \in DOMAIN files
            /\ files[file_name(fprefix, j)].complete
            /\ files[file_name(fprefix, j)].ds.SeriesInstanceUID = SeriesInstanceUID
            /\ files[file_name(fprefix, j)].ds.AcquisitionNumber = j + 1
       /\ \A j \in (exc.at + 1)..(self.frameofreference.size[3] - 1) :
            \/ file_name(fprefix, j) \notin DOMAIN files
            \/ /\ file_name(fprefix, j) \in DOMAIN files0
               /\ files[file_name(fprefix, j)] = files0[file_name(fprefix, j)]

\* the write of slice 1 has failed in a second export, after slice 0 was written
C10_Witness ==
  /\ pc = "raised" /\ exc.type = "OSError" /\ exc.at = 1
  /\ log[Len(log)].op = "save_as" /\ calls = 2

====
